---- MODULE Spec2Model ----
(***************************************************************************)
(* A model of the datafix codec library: the primitive codecs, the         *)
(* combinators of serialization/builtins/codecs.rs, the provided methods   *)
(* of the CodecOps trait and of the map views, DynamicObject, and          *)
(* Codecs::recursive.  Codecs are pure functions, so the state is the      *)
(* record of the last call made on a codec: which codec, the typed value,  *)
(* the representation, the DataResult it returned and the calls it made on *)
(* its sub-codecs and on the backend while running.  Codecs::recursive     *)
(* adds the one piece of mutable state of the library: the shared cell of  *)
(* the placeholder, its borrow flag, and the calls of the placeholder that *)
(* are still running.                                                      *)
(***************************************************************************)
EXTENDS Integers, Sequences, FiniteSets, TLC

VARIABLES codec, op, value, repr, result, log,
          placeholder, writes, rpc, panicked, built, stack

\* The state Codecs::recursive works on: the shared cell with its borrow
\* flag, how often the cell was written, the position inside recursive, the
\* codec it has built, and the calls of the placeholder still running.
rvars == <<placeholder, writes, rpc, panicked, built, stack>>

vars == <<codec, op, value, repr, result, log,
          placeholder, writes, rpc, panicked, built, stack>>

(***************************************************************************)
(* Bounds of the model.                                                    *)
(***************************************************************************)
MaxLen == 3

\* The longest chain of LinkedList nodes handed to the recursive codec.
MaxChain == 3

(***************************************************************************)
(* DataResult<T> and DataError (crate::result).                            *)
(***************************************************************************)
Ok(v) == [ok |-> TRUE, val |-> v]

Err(e) == [ok |-> FALSE, err |-> e]

ShapeMismatch(expected, actual) ==
    [kind |-> "ShapeMismatch", expected |-> expected, actual |-> actual]

KeyNotFound(key) == [kind |-> "KeyNotFound", key |-> key]

new_custom(message) == [kind |-> "ValidationFailed", message |-> message]

(***************************************************************************)
(* What one call returns: its DataResult and, in order, the calls it made  *)
(* itself on the backend and on its sub-codecs.                            *)
(***************************************************************************)
Ret(res, calls) == [res |-> res, log |-> calls]

OpsCall(name, arg) == [call |-> name, arg |-> arg]

CodecCall(name, c, arg) == [call |-> name, codec |-> c, arg |-> arg]

(***************************************************************************)
(* f64 values.  A finite value is kept as twice its value, so that halves  *)
(* are exact; NaN and the infinities are values of their own.              *)
(***************************************************************************)
Fin(twice) == [f |-> "finite", twice |-> twice]

NaN == [f |-> "nan"]

PosInf == [f |-> "inf", neg |-> FALSE]

NegInf == [f |-> "inf", neg |-> TRUE]

I8_MAX == 127

I8_MIN == -128

\* `self as f64` for an i8: every i8 is an exact f64.
into_f64(n) == Fin(2 * n)

\* `value as i8`: truncates toward zero, saturates at the ends of i8, and
\* maps NaN to 0.
from_f64(x) ==
    IF x.f = "nan" THEN 0
    ELSE IF x.f = "inf" THEN (IF x.neg THEN I8_MIN ELSE I8_MAX)
    ELSE LET t == IF x.twice >= 0 THEN x.twice \div 2 ELSE -((-x.twice) \div 2)
         IN  IF t > I8_MAX THEN I8_MAX
             ELSE IF t < I8_MIN THEN I8_MIN
             ELSE t

(***************************************************************************)
(* The backend (CodecOps): a representation value has exactly one of the   *)
(* six shapes.  A map node holds a function from its keys to its values.   *)
(***************************************************************************)
create_number(x) == [shape |-> "number", num |-> x]

create_string(s) == [shape |-> "string", str |-> s]

create_boolean(b) == [shape |-> "boolean", bool |-> b]

create_list(items) == [shape |-> "list", items |-> items]

RECURSIVE MapOf(_)
\* The map a sequence of (key, value) pairs builds; a later pair overwrites
\* an earlier one of the same key.
MapOf(pairs) ==
    IF pairs = << >> THEN << >>
    ELSE LET last == pairs[Len(pairs)]
         IN  (last[1] :> last[2]) @@ MapOf(SubSeq(pairs, 1, Len(pairs) - 1))

create_map(pairs) == [shape |-> "map", entries |-> MapOf(pairs)]

create_unit == [shape |-> "unit"]

get_number(r) ==
    IF r.shape = "number" THEN Ok(r.num) ELSE Err(ShapeMismatch("number", r.shape))

get_string(r) ==
    IF r.shape = "string" THEN Ok(r.str) ELSE Err(ShapeMismatch("string", r.shape))

get_boolean(r) ==
    IF r.shape = "boolean" THEN Ok(r.bool) ELSE Err(ShapeMismatch("boolean", r.shape))

\* The list view is the sequence of the node's elements.
get_list(r) ==
    IF r.shape = "list" THEN Ok(r.items) ELSE Err(ShapeMismatch("list", r.shape))

\* The map view is the node's key-to-value function.
get_map(r) ==
    IF r.shape = "map" THEN Ok(r.entries) ELSE Err(ShapeMismatch("map", r.shape))

\* MapView::get
MapView_get(obj, name) ==
    IF name \in DOMAIN obj THEN Ok(obj[name]) ELSE Err(KeyNotFound(name))

(***************************************************************************)
(* Codec values.  A combinator holds its inner codec(s); closures are      *)
(* named and applied by Apply.                                             *)
(***************************************************************************)
F64Codec == [type |-> "F64Codec"]

StringCodec == [type |-> "StringCodec"]

BoolCodec == [type |-> "BoolCodec"]

\* NumberCodec<i8>: i8::codec()
NumberCodec == [type |-> "NumberCodec"]

\* CodecAdapters::list_of
ListCodec(inner) == [type |-> "ListCodec", inner |-> inner]

\* CodecAdapters::xmap
XMapCodec(inner, f1, f2) == [type |-> "XMapCodec", inner |-> inner, f1 |-> f1, f2 |-> f2]

\* CodecAdapters::pair
PairCodec(left, right) == [type |-> "PairCodec", left |-> left, right |-> right]

\* CodecAdapters::bounded
BoundedCodec(c, range) == [type |-> "BoundedCodec", codec |-> c, range |-> range]

\* CodecAdapters::dynamic: the codec behind a Box<dyn Codec>
DynamicCodec(c) == [type |-> "DynamicCodec", codec |-> c]

\* CodecAdapters::arc: the codec behind an Arc<dyn Codec>
ArcCodec(c) == [type |-> "ArcCodec", codec |-> c]

\* CodecAdapters::boxed: the value behind a Box
BoxCodec(inner) == [type |-> "BoxCodec", inner |-> inner]

Box_new(v) == [box |-> v]

\* FnCodec: a codec made of an encode closure and a decode closure
FnCodec(e, d) == [type |-> "FnCodec", encode |-> e, decode |-> d]

\* The placeholder codec of Codecs::recursive; its closures hold clones of
\* the Rc of the shared cell.
dummy == DynamicCodec(FnCodec("placeholder_clone_1", "placeholder_clone_2"))

\* CodecAdapters::field_of
RecordField(name, getter, c) ==
    [kind |-> "RecordField", field_name |-> name, getter |-> getter, codec |-> c]

\* CodecAdapters::optional_field_of
OptionalField(name, getter, c) ==
    [kind |-> "OptionalField", field_name |-> name, getter |-> getter, codec |-> c]

\* MapCodecBuilder::new().field(f1)...field(fn).build(constructor), over the
\* CodecOps trait named by trait
MapCodecBuilder(trait, fields, constructor) ==
    [type |-> "RecordCodec", trait |-> trait, fields |-> fields,
     constructor |-> constructor]

\* The positional constructors handed to build.
Construct(constructor, args) ==
    CASE constructor = "LinkedList::new" -> [value |-> args[1], next |-> args[2]]
      [] constructor = "GameConfig::new" ->
            [volume |-> args[1], gamma |-> args[2], render_distance |-> args[3]]

Included(x) == [bound |-> "Included", at |-> x]

Excluded(x) == [bound |-> "Excluded", at |-> x]

Unbounded == [bound |-> "Unbounded"]

\* The half-open range lo..hi
Range(lo, hi) == [start |-> Included(lo), end |-> Excluded(hi)]

start_bound(range) == range.start

end_bound(range) == range.end

\* RangeBounds::contains
contains(range, item) ==
    /\ CASE start_bound(range).bound = "Included" -> start_bound(range).at <= item
         [] start_bound(range).bound = "Excluded" -> start_bound(range).at < item
         [] OTHER -> TRUE
    /\ CASE end_bound(range).bound = "Included" -> item <= end_bound(range).at
         [] end_bound(range).bound = "Excluded" -> item < end_bound(range).at
         [] OTHER -> TRUE

\* Rust's integer division truncates toward zero.
TruncDiv(a, b) == IF a >= 0 THEN a \div b ELSE -((-a) \div b)

\* The closures of the xmap codec: |x| x * 5 and |x| x / 5.
Apply(f, x) ==
    CASE f = "mul5" -> x * 5
      [] f = "div5" -> TruncDiv(x, 5)

(***************************************************************************)
(* CodecOps::create_map_special.  An entry is None, Some(Ok((key, value)))  *)
(* or Some(Err(e)).  The trait has two definitions of it: the one of       *)
(* datafix/src/serialization/ops/mod.rs (the trait with the associated     *)
(* type T) and the one of src/serialization/ops/mod.rs (CodecOps<T>).      *)
(***************************************************************************)
None == [some |-> FALSE]

Some(x) == [some |-> TRUE, val |-> x]

RECURSIVE create_map_special_loop_until_none(_, _, _)
\* create_map_special ending its loop at the first absent entry.
create_map_special_loop_until_none(pairs, i, vec) ==
    IF i > Len(pairs) \/ ~pairs[i].some
    THEN Ret(Ok(create_map(vec)), <<OpsCall("create_map", vec)>>)
    ELSE IF pairs[i].val.ok
         THEN create_map_special_loop_until_none(pairs, i + 1, Append(vec, pairs[i].val.val))
         ELSE Ret(Err(pairs[i].val.err), << >>)

RECURSIVE create_map_special_loop(_, _, _)
\* for element in pairs.into_iter().flatten() {
\*     match element { Ok(v) => vec.push(v), Err(e) => return Err(e) } }
\* Ok(self.create_map(vec))
create_map_special_loop(pairs, i, vec) ==
    IF i > Len(pairs)
    THEN Ret(Ok(create_map(vec)), <<OpsCall("create_map", vec)>>)
    ELSE IF ~pairs[i].some THEN create_map_special_loop(pairs, i + 1, vec)
    ELSE IF pairs[i].val.ok
         THEN create_map_special_loop(pairs, i + 1, Append(vec, pairs[i].val.val))
         ELSE Ret(Err(pairs[i].val.err), << >>)

\* datafix/src/serialization/ops/mod.rs
CodecOps_create_map_special(pairs) == create_map_special_loop(pairs, 1, << >>)

RECURSIVE flatten_filter_map_ok(_)
\* pairs.into_iter().flatten().filter_map(|x| x.ok())
flatten_filter_map_ok(pairs) ==
    IF pairs = << >> THEN << >>
    ELSE LET head == pairs[1]
             rest == flatten_filter_map_ok(Tail(pairs))
         IN  IF head.some /\ head.val.ok THEN <<head.val.val>> \o rest ELSE rest

\* src/serialization/ops/mod.rs
CodecOpsT_create_map_special(pairs) ==
    LET iter1 == flatten_filter_map_ok(pairs)
    IN  Ret(Ok(create_map(iter1)), <<OpsCall("create_map", iter1)>>)

RECURSIVE encode(_, _), decode(_, _)

F64Codec_encode(self, v) ==
    Ret(Ok(create_number(v)), <<OpsCall("create_number", v)>>)

\* F64Codec::decode reading the node with the wrong destructor.
F64Codec_decode_as_string(self, r) ==
    Ret(get_string(r), <<OpsCall("get_string", r)>>)

F64Codec_decode(self, r) ==
    Ret(get_number(r), <<OpsCall("get_number", r)>>)

StringCodec_encode(self, v) ==
    Ret(Ok(create_string(v)), <<OpsCall("create_string", v)>>)

StringCodec_decode(self, r) ==
    Ret(get_string(r), <<OpsCall("get_string", r)>>)

BoolCodec_encode(self, v) ==
    Ret(Ok(create_boolean(v)), <<OpsCall("create_boolean", v)>>)

BoolCodec_decode(self, r) ==
    Ret(get_boolean(r), <<OpsCall("get_boolean", r)>>)

NumberCodec_encode(self, v) ==
    Ret(Ok(create_number(into_f64(v))), <<OpsCall("create_number", into_f64(v))>>)

NumberCodec_decode(self, r) ==
    LET got == get_number(r)
    IN  Ret(IF got.ok THEN Ok(from_f64(got.val)) ELSE got,
            <<OpsCall("get_number", r)>>)

RECURSIVE ListCodec_encode_loop_skipping(_, _, _, _, _)
\* ListCodec::encode leaving out the elements that fail to encode.
ListCodec_encode_loop_skipping(self, v, i, list, calls) ==
    IF i > Len(v)
    THEN Ret(Ok(create_list(list)), Append(calls, OpsCall("create_list", list)))
    ELSE LET sub == encode(self.inner, v[i])
             made == Append(calls, CodecCall("encode", self.inner, v[i]))
         IN  IF sub.res.ok
             THEN ListCodec_encode_loop_skipping(self, v, i + 1,
                                                 Append(list, sub.res.val), made)
             ELSE ListCodec_encode_loop_skipping(self, v, i + 1, list, made)

RECURSIVE ListCodec_encode_loop(_, _, _, _, _)
\* for element in value { list.push(self.inner.encode(ops, element)?); }
\* Ok(ops.create_list(list))
ListCodec_encode_loop(self, v, i, list, calls) ==
    IF i > Len(v)
    THEN Ret(Ok(create_list(list)), Append(calls, OpsCall("create_list", list)))
    ELSE LET sub == encode(self.inner, v[i])
             made == Append(calls, CodecCall("encode", self.inner, v[i]))
         IN  IF sub.res.ok
             THEN ListCodec_encode_loop(self, v, i + 1, Append(list, sub.res.val), made)
             ELSE Ret(sub.res, made)

ListCodec_encode(self, v) == ListCodec_encode_loop(self, v, 1, << >>, << >>)

RECURSIVE ListCodec_decode_loop_reversed(_, _, _, _, _)
\* ListCodec::decode putting each decoded element at the front.
ListCodec_decode_loop_reversed(self, list, i, vec, calls) ==
    IF i > Len(list)
    THEN Ret(Ok(vec), calls)
    ELSE LET sub == decode(self.inner, list[i])
             made == Append(calls, CodecCall("decode", self.inner, list[i]))
         IN  IF sub.res.ok
             THEN ListCodec_decode_loop_reversed(self, list, i + 1,
                                                 <<sub.res.val>> \o vec, made)
             ELSE Ret(sub.res, made)

RECURSIVE ListCodec_decode_loop(_, _, _, _, _)
\* for mut item in list.into_iter() { vec.push(self.inner.decode(ops, &mut item)?); }
\* Ok(vec)
ListCodec_decode_loop(self, list, i, vec, calls) ==
    IF i > Len(list)
    THEN Ret(Ok(vec), calls)
    ELSE LET sub == decode(self.inner, list[i])
             made == Append(calls, CodecCall("decode", self.inner, list[i]))
         IN  IF sub.res.ok
             THEN ListCodec_decode_loop(self, list, i + 1, Append(vec, sub.res.val), made)
             ELSE Ret(sub.res, made)

ListCodec_decode(self, r) ==
    LET list == get_list(r)
        calls == <<OpsCall("get_list", r)>>
    IN  IF ~list.ok THEN Ret(list, calls)
        ELSE ListCodec_decode_loop(self, list.val, 1, << >>, calls)

XMapCodec_encode(self, v) ==
    LET sub == encode(self.inner, Apply(self.f2, v))
    IN  Ret(sub.res, <<CodecCall("encode", self.inner, Apply(self.f2, v))>>)

\* XMapCodec::decode returning the inner value without applying f1.
XMapCodec_decode_unmapped(self, r) ==
    Ret(decode(self.inner, r).res, <<CodecCall("decode", self.inner, r)>>)

XMapCodec_decode(self, r) ==
    LET sub == decode(self.inner, r)
        calls == <<CodecCall("decode", self.inner, r)>>
    IN  IF ~sub.res.ok THEN Ret(sub.res, calls)
        ELSE Ret(Ok(Apply(self.f1, sub.res.val)), calls)

\* PairCodec::encode with the two keys exchanged.
PairCodec_encode_swapped(self, v) ==
    LET l == encode(self.left, v[1])
        c1 == <<CodecCall("encode", self.left, v[1])>>
    IN  IF ~l.res.ok THEN Ret(l.res, c1)
        ELSE LET r == encode(self.right, v[2])
                 c2 == Append(c1, CodecCall("encode", self.right, v[2]))
                 pairs == << <<"right", l.res.val>>, <<"left", r.res.val>> >>
             IN  IF ~r.res.ok THEN Ret(r.res, c2)
                 ELSE Ret(Ok(create_map(pairs)), Append(c2, OpsCall("create_map", pairs)))

PairCodec_encode(self, v) ==
    LET l == encode(self.left, v[1])
        c1 == <<CodecCall("encode", self.left, v[1])>>
    IN  IF ~l.res.ok THEN Ret(l.res, c1)
        ELSE LET r == encode(self.right, v[2])
                 c2 == Append(c1, CodecCall("encode", self.right, v[2]))
                 pairs == << <<"left", l.res.val>>, <<"right", r.res.val>> >>
             IN  IF ~r.res.ok THEN Ret(r.res, c2)
                 ELSE Ret(Ok(create_map(pairs)), Append(c2, OpsCall("create_map", pairs)))

\* PairCodec::decode looking both keys up before decoding either side.
PairCodec_decode_keys_first(self, r) ==
    LET obj == get_map(r)
        c1 == <<OpsCall("get_map", r)>>
    IN  IF ~obj.ok THEN Ret(obj, c1)
        ELSE
        LET left == MapView_get(obj.val, "left")
            c2 == Append(c1, OpsCall("get", "left"))
        IN  IF ~left.ok THEN Ret(left, c2)
            ELSE
            LET right == MapView_get(obj.val, "right")
                c3 == Append(c2, OpsCall("get", "right"))
            IN  IF ~right.ok THEN Ret(right, c3)
                ELSE
                LET p1 == decode(self.left, left.val)
                    c4 == Append(c3, CodecCall("decode", self.left, left.val))
                IN  IF ~p1.res.ok THEN Ret(p1.res, c4)
                    ELSE
                    LET p2 == decode(self.right, right.val)
                        c5 == Append(c4, CodecCall("decode", self.right, right.val))
                    IN  IF ~p2.res.ok THEN Ret(p2.res, c5)
                        ELSE Ret(Ok(<<p1.res.val, p2.res.val>>), c5)

PairCodec_decode(self, r) ==
    LET obj == get_map(r)
        c1 == <<OpsCall("get_map", r)>>
    IN  IF ~obj.ok THEN Ret(obj, c1)
        ELSE
        LET left == MapView_get(obj.val, "left")
            c2 == Append(c1, OpsCall("get", "left"))
        IN  IF ~left.ok THEN Ret(left, c2)
            ELSE
            LET p1 == decode(self.left, left.val)
                c3 == Append(c2, CodecCall("decode", self.left, left.val))
            IN  IF ~p1.res.ok THEN Ret(p1.res, c3)
                ELSE
                LET right == MapView_get(obj.val, "right")
                    c4 == Append(c3, OpsCall("get", "right"))
                IN  IF ~right.ok THEN Ret(right, c4)
                    ELSE
                    LET p2 == decode(self.right, right.val)
                        c5 == Append(c4, CodecCall("decode", self.right, right.val))
                    IN  IF ~p2.res.ok THEN Ret(p2.res, c5)
                        ELSE Ret(Ok(<<p1.res.val, p2.res.val>>), c5)

\* "value must be in bounds of {:?} to {:?}"
BoundsMessage(range) ==
    <<"value must be in bounds of", start_bound(range), "to", end_bound(range)>>

\* BoundedCodec::encode delegating without the range check.
BoundedCodec_encode_unchecked(self, v) ==
    Ret(encode(self.codec, v).res, <<CodecCall("encode", self.codec, v)>>)

BoundedCodec_encode(self, v) ==
    IF ~contains(self.range, v)
    THEN Ret(Err(new_custom(BoundsMessage(self.range))), << >>)
    ELSE Ret(encode(self.codec, v).res, <<CodecCall("encode", self.codec, v)>>)

\* BoundedCodec::decode delegating without the range check.
BoundedCodec_decode_unchecked(self, r) ==
    Ret(decode(self.codec, r).res, <<CodecCall("decode", self.codec, r)>>)

BoundedCodec_decode(self, r) ==
    LET decoded == decode(self.codec, r)
        calls == <<CodecCall("decode", self.codec, r)>>
    IN  IF ~decoded.res.ok THEN Ret(decoded.res, calls)
        ELSE IF contains(self.range, decoded.res.val) THEN Ret(Ok(decoded.res.val), calls)
        ELSE Ret(Err(new_custom(BoundsMessage(self.range))), calls)

DynamicCodec_encode(self, v) ==
    Ret(encode(self.codec, v).res, <<CodecCall("encode", self.codec, v)>>)

\* DynamicCodec::decode reaching through the boxed codec to the codec it wraps.
DynamicCodec_decode_unwrapped(self, r) ==
    LET target == IF self.codec.type \in {"BoundedCodec", "DynamicCodec", "ArcCodec"}
                  THEN self.codec.codec ELSE self.codec
    IN  Ret(decode(target, r).res, <<CodecCall("decode", target, r)>>)

DynamicCodec_decode(self, r) ==
    Ret(decode(self.codec, r).res, <<CodecCall("decode", self.codec, r)>>)

ArcCodec_encode(self, v) ==
    Ret(encode(self.codec, v).res, <<CodecCall("encode", self.codec, v)>>)

ArcCodec_decode(self, r) ==
    Ret(decode(self.codec, r).res, <<CodecCall("decode", self.codec, r)>>)

BoxCodec_encode(self, v) ==
    Ret(encode(self.inner, v.box).res, <<CodecCall("encode", self.inner, v.box)>>)

BoxCodec_decode(self, r) ==
    LET out == decode(self.inner, r).res
    IN  Ret(IF out.ok THEN Ok(Box_new(out.val)) ELSE out,
            <<CodecCall("decode", self.inner, r)>>)

\* What a call that panicked leaves behind: no DataResult, the thread unwinds.
Panicked(message) == [ok |-> FALSE, panic |-> TRUE, message |-> message]

IsPanic(res) == "panic" \in DOMAIN res

\* Option::expect turned into a data error instead of a panic.
ok_or_custom(cell, message) ==
    IF cell.some THEN Ok(cell.val) ELSE Err(new_custom(message))

\* placeholder_clone.borrow().as_ref().expect(message): the installed codec,
\* or a panic while the cell still holds None
expect(cell, message) ==
    IF cell.some THEN Ok(cell.val) ELSE Panicked(message)

\* The encode closure refusing every call, installed codec or not.
placeholder_clone_1_refusing(v) ==
    Ret(Err(new_custom("tried to decode before initialization")), << >>)

\* The encode closure of the placeholder.
placeholder_clone_1(v) ==
    LET installed == expect(placeholder.value, "tried to decode before initialization")
    IN  IF installed.ok
        THEN Ret(encode(installed.val, v).res, <<CodecCall("encode", installed.val, v)>>)
        ELSE Ret(installed, << >>)

\* The decode closure of the placeholder.
placeholder_clone_2(r) ==
    LET installed == expect(placeholder.value, "tried to decode before initialization")
    IN  IF installed.ok
        THEN Ret(decode(installed.val, r).res, <<CodecCall("decode", installed.val, r)>>)
        ELSE Ret(installed, << >>)

FnCodec_encode(self, v) ==
    CASE self.encode = "placeholder_clone_1" -> placeholder_clone_1(v)

FnCodec_decode(self, r) ==
    CASE self.decode = "placeholder_clone_2" -> placeholder_clone_2(r)

\* .map(|x| (field_name, x)) on the result of a field's encode
named(field, res) == IF res.ok THEN Ok(<<field.field_name, res.val>>) ELSE res

\* The entry a field hands to create_map_special: an absent optional field
\* hands None, every other field its encoded value under its name.
Field_encode(field, v) ==
    LET x == v[field.getter]
    IN  IF field.kind = "OptionalField"
        THEN IF x.some THEN Some(named(field, encode(field.codec, x.val).res)) ELSE None
        ELSE Some(named(field, encode(field.codec, x).res))

Field_encode_calls(field, v) ==
    LET x == v[field.getter]
    IN  IF field.kind = "OptionalField"
        THEN IF x.some THEN <<CodecCall("encode", field.codec, x.val)>> ELSE << >>
        ELSE <<CodecCall("encode", field.codec, x)>>

RECURSIVE Concat(_)
Concat(seqs) == IF seqs = << >> THEN << >> ELSE seqs[1] \o Concat(Tail(seqs))

\* The codec MapCodecBuilder::build returns, encoding: every field goes
\* through create_map_special under its name.
RecordCodec_encode(self, v) ==
    LET pairs == [i \in 1..Len(self.fields) |-> Field_encode(self.fields[i], v)]
        calls == Concat([i \in 1..Len(self.fields) |-> Field_encode_calls(self.fields[i], v)])
        out == IF self.trait = "CodecOps" THEN CodecOps_create_map_special(pairs)
               ELSE CodecOpsT_create_map_special(pairs)
    IN  Ret(out.res, calls \o out.log)

RECURSIVE RecordCodec_decode_loop(_, _, _, _, _)
\* The fields are resolved by key and decoded in declared order; a key that
\* is not a field's name is never asked for.  The first failure is returned.
RecordCodec_decode_loop(self, obj, i, vec, calls) ==
    IF i > Len(self.fields) THEN Ret(Ok(Construct(self.constructor, vec)), calls)
    ELSE LET field == self.fields[i]
             got == MapView_get(obj, field.field_name)
             calls1 == Append(calls, OpsCall("get", field.field_name))
         IN  IF ~got.ok
             THEN IF field.kind = "OptionalField"
                  THEN RecordCodec_decode_loop(self, obj, i + 1, Append(vec, None), calls1)
                  ELSE Ret(got, calls1)
             ELSE LET out == decode(field.codec, got.val).res
                      calls2 == Append(calls1, CodecCall("decode", field.codec, got.val))
                  IN  IF ~out.ok THEN Ret(out, calls2)
                      ELSE RecordCodec_decode_loop(self, obj, i + 1,
                               Append(vec, IF field.kind = "OptionalField"
                                           THEN Some(out.val) ELSE out.val),
                               calls2)

\* The codec MapCodecBuilder::build returns, decoding.
RecordCodec_decode(self, r) ==
    LET obj == get_map(r)
    IN  IF ~obj.ok THEN Ret(obj, <<OpsCall("get_map", r)>>)
        ELSE RecordCodec_decode_loop(self, obj.val, 1, << >>, <<OpsCall("get_map", r)>>)

\* Codec::encode, dispatched on the codec's type.
encode(self, v) ==
    CASE self.type = "F64Codec" -> F64Codec_encode(self, v)
      [] self.type = "StringCodec" -> StringCodec_encode(self, v)
      [] self.type = "BoolCodec" -> BoolCodec_encode(self, v)
      [] self.type = "NumberCodec" -> NumberCodec_encode(self, v)
      [] self.type = "ListCodec" -> ListCodec_encode(self, v)
      [] self.type = "XMapCodec" -> XMapCodec_encode(self, v)
      [] self.type = "PairCodec" -> PairCodec_encode(self, v)
      [] self.type = "BoundedCodec" -> BoundedCodec_encode(self, v)
      [] self.type = "DynamicCodec" -> DynamicCodec_encode(self, v)
      [] self.type = "ArcCodec" -> ArcCodec_encode(self, v)
      [] self.type = "BoxCodec" -> BoxCodec_encode(self, v)
      [] self.type = "FnCodec" -> FnCodec_encode(self, v)
      [] self.type = "RecordCodec" -> RecordCodec_encode(self, v)

\* Codec::decode, dispatched on the codec's type.
decode(self, r) ==
    CASE self.type = "F64Codec" -> F64Codec_decode(self, r)
      [] self.type = "StringCodec" -> StringCodec_decode(self, r)
      [] self.type = "BoolCodec" -> BoolCodec_decode(self, r)
      [] self.type = "NumberCodec" -> NumberCodec_decode(self, r)
      [] self.type = "ListCodec" -> ListCodec_decode(self, r)
      [] self.type = "XMapCodec" -> XMapCodec_decode(self, r)
      [] self.type = "PairCodec" -> PairCodec_decode(self, r)
      [] self.type = "BoundedCodec" -> BoundedCodec_decode(self, r)
      [] self.type = "DynamicCodec" -> DynamicCodec_decode(self, r)
      [] self.type = "ArcCodec" -> ArcCodec_decode(self, r)
      [] self.type = "BoxCodec" -> BoxCodec_decode(self, r)
      [] self.type = "FnCodec" -> FnCodec_decode(self, r)
      [] self.type = "RecordCodec" -> RecordCodec_decode(self, r)

(***************************************************************************)
(* The closures handed to update and map, and the provided method update   *)
(* of the map views.  A view is the key-to-value function of its node;     *)
(* what update returns here is the function the node holds afterwards and  *)
(* the calls update made.                                                  *)
(***************************************************************************)
call_once(f, v) ==
    CASE f = "wrap_in_list" -> create_list(<<v>>)
      [] f = "to_unit" -> create_unit

Updated(obj, calls) == [obj |-> obj, log |-> calls]

\* update storing f's result under the key whether the key is there or not.
MapView_update_or_insert(obj, name, f) ==
    LET v == MapView_get(obj, name)
    IN  Updated((name :> call_once(f, IF v.ok THEN v.val ELSE create_unit)) @@ obj,
                <<OpsCall("get", name), OpsCall("f", IF v.ok THEN v.val ELSE create_unit)>>)

\* MapView::update (src/serialization/ops/mod.rs)
MapView_update(obj, name, f) ==
    LET v == MapView_get(obj, name)
    IN  IF v.ok
        THEN Updated([obj EXCEPT ![name] = call_once(f, v.val)],
                     <<OpsCall("get", name), OpsCall("f", v.val)>>)
        ELSE Updated(obj, <<OpsCall("get", name)>>)

\* MapViewMut::update (datafix/src/serialization/ops/mod.rs)
MapViewMut_update(obj, name, f) ==
    LET v == MapView_get(obj, name)
    IN  IF v.ok
        THEN Updated([obj EXCEPT ![name] = call_once(f, v.val)],
                     <<OpsCall("get_mut", name), OpsCall("f", v.val)>>)
        ELSE Updated(obj, <<OpsCall("get_mut", name)>>)

(***************************************************************************)
(* DynamicObject (dynamic/object.rs).  Its HashMap is the key-to-value     *)
(* function together with the order in which the table yields its keys,    *)
(* which the table chooses.                                                *)
(***************************************************************************)
Orders(K) == {o \in [1..Cardinality(K) -> K] : \A k \in K : \E i \in DOMAIN o : o[i] = k}

HashMap(table, order) == [table |-> table, order |-> order]

HashMap_keys(m) == m.order

HashMap_get(m, key) == IF key \in DOMAIN m.table THEN Some(m.table[key]) ELSE None

\* HashMap::insert: the possible tables afterwards.  A key already there
\* keeps its place; a new key may leave the keys in any order.
HashMap_insert(m, key, v) ==
    IF key \in DOMAIN m.table
    THEN {HashMap([m.table EXCEPT ![key] = v], m.order)}
    ELSE {HashMap((key :> v) @@ m.table, o) : o \in Orders(DOMAIN m.table \cup {key})}

DynamicObject(inner) == [inner |-> inner]

DynamicObject_get(self, key) == HashMap_get(self.inner, key)

DynamicObject_insert(self, key, v) ==
    {DynamicObject(m) : m \in HashMap_insert(self.inner, key, v)}

\* DynamicObject::map inserting f's result for a key that is not there.
DynamicObject_map_or_insert(self, key, f) ==
    LET v == DynamicObject_get(self, key)
    IN  DynamicObject_insert(self, key, call_once(f, IF v.some THEN v.val ELSE create_unit))

\* DynamicObject::map: the possible objects afterwards
DynamicObject_map(self, key, f) ==
    LET v == DynamicObject_get(self, key)
    IN  IF v.some THEN DynamicObject_insert(self, key, call_once(f, v.val)) ELSE {self}

\* PartialEq for DynamicObject: the two key iterators are compared position
\* by position, then the values key by key.
DynamicObject_eq(self, other) ==
    IF HashMap_keys(self.inner) # HashMap_keys(other.inner) THEN FALSE
    ELSE \A i \in 1..Len(HashMap_keys(self.inner)) :
            LET key == HashMap_keys(self.inner)[i]
            IN  DynamicObject_get(self, key) = DynamicObject_get(other, key)

(***************************************************************************)
(* CodecOps::repair and the rewrite rules handed to it.                    *)
(***************************************************************************)
\* The backend value the calls are made on; it has no fields, so its clone
\* is the value itself.
JsonOps == [ops |-> "JsonOps"]

clone(self) == self

Rules == {"nest_under_data", "to_unit"}

\* TypeRewriteRule::fix_data of the rules of the model
fix_data(rule, ops, v) ==
    CASE rule = "nest_under_data" -> create_map(<< <<"data", v>> >>)
      [] rule = "to_unit" -> create_unit

Repaired(v, calls) == [val |-> v, log |-> calls]

RuleCall(rule, ops, v) == [call |-> "fix_data", rule |-> rule, ops |-> ops, arg |-> v]

\* repair running the rule on its own result once more.
repair_twice(self, v, rule) ==
    LET once == fix_data(rule, clone(self), v)
    IN  Repaired(fix_data(rule, clone(self), once),
                 <<RuleCall(rule, clone(self), v), RuleCall(rule, clone(self), once)>>)

\* CodecOps::repair
repair(self, v, rule) ==
    Repaired(fix_data(rule, clone(self), v), <<RuleCall(rule, clone(self), v)>>)

(***************************************************************************)
(* The inputs of the model.                                                *)
(***************************************************************************)
SeqsUpTo(S, n) == UNION {[1..k -> S] : k \in 0..n}

F64Values == {Fin(20), Fin(3), Fin(0), Fin(-5), NaN, PosInf, NegInf}

StringValues == {"", "Hello", "Hello!"}

I8Values == {I8_MIN, -16, -1, 0, 1, 15, 16, 29, 30, 75, I8_MAX}

\* i8::codec().bounded(1..30) and two more ranges, the last one empty.
BoundedCodecs ==
    {BoundedCodec(NumberCodec, Range(1, 30)),
     BoundedCodec(NumberCodec, Range(0, 5)),
     BoundedCodec(NumberCodec, Range(30, 1))}

BoundedLeft == BoundedCodec(NumberCodec, Range(1, 30))

BoundedRight == BoundedCodec(NumberCodec, Range(0, 5))

\* i8::codec().pair(String::codec()), and a pair whose sides can both fail
\* to encode.
PairCodecs ==
    {PairCodec(NumberCodec, StringCodec), PairCodec(BoundedLeft, BoundedRight)}

ListCodecs ==
    {ListCodec(NumberCodec), ListCodec(BoundedLeft),
     ListCodec(PairCodec(BoundedLeft, BoundedRight))}

\* i8::codec().xmap(|x| x * 5, |x| x / 5), and the same over a codec whose
\* encode can fail.
XMapCodecs ==
    {XMapCodec(NumberCodec, "mul5", "div5"), XMapCodec(BoundedLeft, "mul5", "div5")}

\* The codecs put behind dynamic() and arc(): f64::codec() and combinators.
WrappedCodecs ==
    {F64Codec, BoundedLeft, PairCodec(NumberCodec, StringCodec), ListCodec(BoundedLeft)}

PairValues(c) ==
    IF c.left.type = "BoundedCodec"
    THEN {1, 15, 30, 75} \X {0, 3, 5, 9}
    ELSE I8Values \X StringValues

ListValues(c) ==
    SeqsUpTo(IF c.inner.type = "PairCodec" THEN {15, 75} \X {3, 9} ELSE {1, 15, 30, 75},
             MaxLen)

WrappedValues(c) ==
    CASE c.type = "F64Codec" -> F64Values
      [] c.type = "BoundedCodec" -> I8Values
      [] c.type = "PairCodec" -> PairValues(c)
      [] c.type = "ListCodec" -> ListValues(c)

Num(twice) == create_number(Fin(twice))

ScalarReprs ==
    {create_number(x) : x \in F64Values}
        \cup {Num(2), Num(30), Num(59), Num(60), Num(150), Num(600), Num(-600)}
        \cup {create_string(s) : s \in StringValues}
        \cup {create_boolean(b) : b \in BOOLEAN}
        \cup {create_unit}

ElemReprs ==
    {Num(30), Num(150), Num(3), create_string("Hello"), create_boolean(TRUE),
     create_map(<< <<"left", Num(30)>>, <<"right", Num(6)>> >>),
     create_map(<< <<"left", Num(30)>> >>)}

ListReprs == {create_list(items) : items \in SeqsUpTo(ElemReprs, MaxLen)}

FieldReprs == {Num(30), Num(150), Num(6), create_string("Hello")}

MapReprs ==
    {[shape |-> "map", entries |-> f] :
        f \in UNION {[K -> FieldReprs] : K \in SUBSET {"left", "right", "extra"}}}

Reprs == ScalarReprs \cup ListReprs \cup MapReprs

\* The closure |x| x * 5 has no overflow on these.
XMapReprs ==
    {r \in Reprs : r.shape = "number" =>
        /\ from_f64(r.num) * 5 <= I8_MAX
        /\ from_f64(r.num) * 5 >= I8_MIN}

E1 == ShapeMismatch("number", "string")

E2 == new_custom(BoundsMessage(Range(1, 30)))

Entries ==
    {None, Some(Ok(<<"a", Num(30)>>)), Some(Ok(<<"b", create_string("Hello")>>)),
     Some(Ok(<<"a", create_boolean(TRUE)>>)), Some(Err(E1)), Some(Err(E2))}

(***************************************************************************)
(* The state machine: a caller that makes one call at a time.              *)
(***************************************************************************)
\* RefCell::new: nothing borrowed.  The borrow flag counts the shared borrows
\* and is -1 while the cell is borrowed mutably.
RefCell_new(v) == [borrow |-> 0, value |-> v]

\* RefCell::borrow; it panics while the cell is borrowed mutably.
RefCell_borrow(cell) ==
    IF cell.borrow < 0 THEN Panicked("already mutably borrowed")
    ELSE Ok([cell EXCEPT !.borrow = @ + 1])

\* RefCell::borrow_mut; it panics while the cell is borrowed at all.
RefCell_borrow_mut(cell) ==
    IF cell.borrow # 0 THEN Panicked("already borrowed")
    ELSE Ok([cell EXCEPT !.borrow = -1])

\* Dropping a Ref or the RefMut.
RefCell_release(cell) ==
    [cell EXCEPT !.borrow = IF @ < 0 THEN 0 ELSE @ - 1]

\* The builder of the documentation of Codecs::recursive.
LinkedList_codec(c) ==
    MapCodecBuilder("CodecOps<T>",
        <<RecordField("value", "value", NumberCodec),
          OptionalField("next", "next", BoxCodec(c))>>,
        "LinkedList::new")

\* Backpatching without a codec: the cell keeps None.
Some_forgotten(c) == None

\* Some(codec.clone()), the value written into the cell
Some_clone(c) == Some(c)

UpdateKeys == {"left", "missing"}

UpdateClosures == {"wrap_in_list", "to_unit"}

\* The objects of the model: up to two keys, the table yielding them in
\* either order.
DynamicObjects ==
    UNION {{DynamicObject(HashMap(t, o)) :
                t \in [K -> {Num(30), create_string("Hello")}], o \in Orders(K)} :
           K \in SUBSET {"left", "right"}}

\* GameConfig::codec() with gamma declared before volume.
GameConfig_codec_gamma_first ==
    MapCodecBuilder("CodecOps",
        <<RecordField("gamma", "gamma", NumberCodec),
          RecordField("volume", "volume", NumberCodec),
          RecordField("render_distance", "render_distance", NumberCodec)>>,
        "GameConfig::new")

\* GameConfig::codec() of the game_config example.  The three integer fields
\* are kept at the width of NumberCodec.
GameConfig_codec ==
    MapCodecBuilder("CodecOps",
        <<RecordField("volume", "volume", NumberCodec),
          RecordField("gamma", "gamma", NumberCodec),
          RecordField("render_distance", "render_distance", NumberCodec)>>,
        "GameConfig::new")

GameConfig_new(volume, gamma, render_distance) ==
    [volume |-> volume, gamma |-> gamma, render_distance |-> render_distance]

GameConfigs == {GameConfig_new(100, 50, 12), GameConfig_new(-1, 0, I8_MAX)}

\* The keys GameConfig::codec() declares.
GameConfigKeys == {"volume", "gamma", "render_distance"}

\* The keys main inserts into the encoded map: one no field has, and one of
\* a field.
InsertedKeys == {"wrender_distance", "volume"}

\* Representations handed to GameConfig::codec() that it did not encode.
GameConfigReprs ==
    {Num(2),
     create_map(<< <<"volume", Num(2)>>, <<"gamma", Num(4)>> >>),
     create_map(<< <<"gamma", Num(4)>>, <<"render_distance", Num(6)>>,
                   <<"volume", Num(2)>>, <<"wrender_distance", create_string("ok")>> >>),
     create_map(<< <<"volume", Num(2)>>, <<"gamma", create_string("ok")>>,
                   <<"render_distance", Num(6)>> >>)}

\* Dynamic insert on a map node: the key is added, or its value replaced.
insert(r, key, v) == [r EXCEPT !.entries = (key :> v) @@ @]

ChainValues == {1, 2}

RECURSIVE ChainsOf(_)
\* The LinkedList chains of n nodes.
ChainsOf(n) ==
    IF n = 1 THEN {[value |-> x, next |-> None] : x \in ChainValues}
    ELSE {[value |-> x, next |-> Some(Box_new(t))] : x \in ChainValues, t \in ChainsOf(n - 1)}

Chains == UNION {ChainsOf(n) : n \in 1..MaxChain}

RECURSIVE ChainLen(_)
ChainLen(v) == IF v.next.some THEN 1 + ChainLen(v.next.val.box) ELSE 1

\* Representations handed to the recursive codec that no encode produced.
ChainReprs ==
    {Num(2),
     create_map(<< <<"value", create_string("Hello")>> >>),
     create_map(<< <<"next", create_map(<< <<"value", Num(2)>> >>)>> >>),
     create_map(<< <<"value", Num(2)>>, <<"next", Num(4)>> >>),
     create_map(<< <<"value", Num(2)>>, <<"extra", Num(4)>>,
                   <<"next", create_map(<< <<"value", Num(4)>> >>)>> >>)}

\* The positions of the caller at which a call has returned.
Completed ==
    {"encode", "decode", "roundtrip", "crosstrip", "create_map_special", "insert",
     "update", "map"}

NoRepr == [shape |-> "none"]

NoCodec == [type |-> "none"]

Init ==
    /\ codec = NoCodec
    /\ op = "idle"
    /\ value = << >>
    /\ repr = NoRepr
    /\ result = Ok(<< >>)
    /\ log = << >>
    /\ placeholder = RefCell_new(None)
    /\ writes = 0
    /\ rpc = "none"
    /\ panicked = FALSE
    /\ built = None
    /\ stack = << >>

\* codec.encode(&ops, &v)
Encode(c, v) ==
    LET out == encode(c, v)
    IN  /\ codec' = c
        /\ op' = "encode"
        /\ value' = v
        /\ repr' = IF out.res.ok THEN out.res.val ELSE NoRepr
        /\ result' = out.res
        /\ log' = out.log
        /\ UNCHANGED rvars

\* codec.decode(&ops, &mut r) on a representation r of the caller's own
Decode(c, r) ==
    LET out == decode(c, r)
    IN  /\ codec' = c
        /\ op' = "decode"
        /\ value' = << >>
        /\ repr' = r
        /\ result' = out.res
        /\ log' = out.log
        /\ UNCHANGED rvars

\* codec.decode(&ops, &mut encoded) on what the same codec has just encoded
DecodeEncoded(c) ==
    /\ codec = c
    /\ result.ok
    /\ LET out == decode(c, repr)
       IN  /\ op' = "roundtrip"
           /\ result' = out.res
           /\ log' = out.log
    /\ UNCHANGED <<codec, value, repr>>
    /\ UNCHANGED rvars

F64CodecEncode ==
    op = "idle" /\ \E v \in F64Values : Encode(F64Codec, v)

F64CodecDecode ==
    \/ op = "encode" /\ DecodeEncoded(F64Codec)
    \/ op = "idle" /\ \E r \in Reprs : Decode(F64Codec, r)

StringCodecEncode ==
    op = "idle" /\ \E v \in StringValues : Encode(StringCodec, v)

StringCodecDecode ==
    \/ op = "encode" /\ DecodeEncoded(StringCodec)
    \/ op = "idle" /\ \E r \in Reprs : Decode(StringCodec, r)

BoolCodecEncode ==
    op = "idle" /\ \E v \in BOOLEAN : Encode(BoolCodec, v)

BoolCodecDecode ==
    \/ op = "encode" /\ DecodeEncoded(BoolCodec)
    \/ op = "idle" /\ \E r \in Reprs : Decode(BoolCodec, r)

NumberCodecEncode ==
    op = "idle" /\ \E v \in I8Values : Encode(NumberCodec, v)

NumberCodecDecode ==
    \/ op = "encode" /\ DecodeEncoded(NumberCodec)
    \/ op = "idle" /\ \E r \in Reprs : Decode(NumberCodec, r)

ListCodecEncode ==
    op = "idle" /\ \E c \in ListCodecs : \E v \in ListValues(c) : Encode(c, v)

ListCodecDecode ==
    \/ op = "encode" /\ \E c \in ListCodecs : DecodeEncoded(c)
    \/ op = "idle" /\ \E c \in ListCodecs : \E r \in Reprs : Decode(c, r)

XMapCodecEncode ==
    op = "idle" /\ \E c \in XMapCodecs : \E v \in I8Values : Encode(c, v)

XMapCodecDecode ==
    \/ op = "encode" /\ \E c \in XMapCodecs : DecodeEncoded(c)
    \/ op = "idle" /\ \E c \in XMapCodecs : \E r \in XMapReprs : Decode(c, r)

PairCodecEncode ==
    op = "idle" /\ \E c \in PairCodecs : \E v \in PairValues(c) : Encode(c, v)

PairCodecDecode ==
    \/ op = "encode" /\ \E c \in PairCodecs : DecodeEncoded(c)
    \/ op = "idle" /\ \E c \in PairCodecs : \E r \in Reprs : Decode(c, r)

BoundedCodecEncode ==
    op = "idle" /\ \E c \in BoundedCodecs : \E v \in I8Values : Encode(c, v)

BoundedCodecDecode ==
    \/ op = "encode" /\ \E c \in BoundedCodecs : DecodeEncoded(c)
    \/ op = "idle" /\ \E c \in BoundedCodecs : \E r \in Reprs : Decode(c, r)

\* other.decode(&ops, &mut encoded) on what a wrapper of the same codec has
\* just encoded
DecodeEncodedBy(other) ==
    /\ result.ok
    /\ LET out == decode(other, repr)
       IN  /\ codec' = other
           /\ op' = "crosstrip"
           /\ result' = out.res
           /\ log' = out.log
    /\ UNCHANGED <<value, repr>>
    /\ UNCHANGED rvars

DynamicCodecEncode ==
    op = "idle" /\ \E c \in WrappedCodecs : \E v \in WrappedValues(c) : Encode(DynamicCodec(c), v)

DynamicCodecDecode ==
    \/ op = "encode" /\ \E c \in WrappedCodecs : DecodeEncoded(DynamicCodec(c))
    \/ op = "encode" /\ \E c \in WrappedCodecs :
            codec = ArcCodec(c) /\ DecodeEncodedBy(DynamicCodec(c))
    \/ op = "idle" /\ \E c \in WrappedCodecs : \E r \in Reprs : Decode(DynamicCodec(c), r)

ArcCodecEncode ==
    op = "idle" /\ \E c \in WrappedCodecs : \E v \in WrappedValues(c) : Encode(ArcCodec(c), v)

ArcCodecDecode ==
    \/ op = "encode" /\ \E c \in WrappedCodecs : DecodeEncoded(ArcCodec(c))
    \/ op = "encode" /\ \E c \in WrappedCodecs :
            codec = DynamicCodec(c) /\ DecodeEncodedBy(ArcCodec(c))
    \/ op = "idle" /\ \E c \in WrappedCodecs : \E r \in Reprs : Decode(ArcCodec(c), r)

\* ops.create_map_special(pairs), by either definition of the trait
CreateMapSpecial(trait, out, pairs) ==
    /\ codec' = [type |-> trait]
    /\ op' = "create_map_special"
    /\ value' = pairs
    /\ repr' = IF out.res.ok THEN out.res.val ELSE NoRepr
    /\ result' = out.res
    /\ log' = out.log
    /\ UNCHANGED rvars

CodecOpsCreateMapSpecial ==
    /\ op = "idle"
    /\ \E pairs \in SeqsUpTo(Entries, MaxLen) :
            CreateMapSpecial("CodecOps", CodecOps_create_map_special(pairs), pairs)

CodecOpsTCreateMapSpecial ==
    /\ op = "idle"
    /\ \E pairs \in SeqsUpTo(Entries, MaxLen) :
            CreateMapSpecial("CodecOps<T>", CodecOpsT_create_map_special(pairs), pairs)

(***************************************************************************)
(* The game_config example: encode a GameConfig, insert a key into the     *)
(* encoded map, decode it.                                                 *)
(***************************************************************************)
GameConfigEncode ==
    op = "idle" /\ \E v \in GameConfigs : Encode(GameConfig_codec, v)

\* encoded.insert(key, "ok").unwrap()
GameConfigInsert ==
    /\ op = "encode" /\ codec = GameConfig_codec /\ result.ok
    /\ \E key \in InsertedKeys : repr' = insert(repr, key, create_string("ok"))
    /\ op' = "insert"
    /\ UNCHANGED <<codec, value, result, log>>
    /\ UNCHANGED rvars

GameConfigDecode ==
    \/ op \in {"encode", "insert"} /\ DecodeEncoded(GameConfig_codec)
    \/ op = "idle" /\ \E r \in GameConfigReprs : Decode(GameConfig_codec, r)

(***************************************************************************)
(* Calls of update on the map view of a node, and of DynamicObject::map.   *)
(* value holds the object before the call, the key and the closure; repr   *)
(* the object after it.                                                    *)
(***************************************************************************)
Update(view, m, key, f, out) ==
    /\ codec' = [type |-> view]
    /\ op' = "update"
    /\ value' = [obj |-> m, key |-> key, f |-> f]
    /\ repr' = [m EXCEPT !.entries = out.obj]
    /\ result' = Ok(<< >>)
    /\ log' = out.log
    /\ UNCHANGED rvars

MapViewUpdate ==
    /\ op = "idle"
    /\ \E m \in MapReprs : \E key \in UpdateKeys : \E f \in UpdateClosures :
            Update("MapView", m, key, f, MapView_update(m.entries, key, f))

MapViewMutUpdate ==
    /\ op = "idle"
    /\ \E m \in MapReprs : \E key \in UpdateKeys : \E f \in UpdateClosures :
            Update("MapViewMut", m, key, f, MapViewMut_update(m.entries, key, f))

DynamicObjectMap ==
    /\ op = "idle"
    /\ \E self \in DynamicObjects : \E key \in UpdateKeys : \E f \in UpdateClosures :
        \E after \in DynamicObject_map(self, key, f) :
            /\ codec' = [type |-> "DynamicObject"]
            /\ op' = "map"
            /\ value' = [obj |-> self, key |-> key, f |-> f]
            /\ repr' = after
            /\ result' = Ok(<< >>)
            /\ log' = << >>
    /\ UNCHANGED rvars

\* self == other on two objects; what it returns is a bool.
DynamicObjectEq ==
    /\ op = "idle"
    /\ \E self \in DynamicObjects : \E other \in DynamicObjects :
        /\ codec' = [type |-> "DynamicObject"]
        /\ op' = "eq"
        /\ value' = <<self, other>>
        /\ repr' = NoRepr
        /\ result' = DynamicObject_eq(self, other)
        /\ log' = << >>
    /\ UNCHANGED rvars

\* ops.repair(value, rule): what it returns is a representation, not a
\* DataResult.
Repair ==
    /\ op = "idle"
    /\ \E r \in ScalarReprs \cup MapReprs : \E rule \in Rules :
        LET out == repair(JsonOps, r, rule)
        IN  /\ codec' = [type |-> "CodecOps"]
            /\ op' = "repair"
            /\ value' = [rule |-> rule, arg |-> r]
            /\ repr' = out.val
            /\ result' = out.val
            /\ log' = out.log
    /\ UNCHANGED rvars

(***************************************************************************)
(* Codecs::recursive, statement by statement.  The caller is inside        *)
(* recursive (op = "recursive") from the allocation of the cell to the     *)
(* return of the codec; a panic ends the thread.                           *)
(***************************************************************************)
\* let placeholder = Rc::new(RefCell::new(None)); the clones and the dummy
\* are made, and f(dummy) is entered
RecursiveCall ==
    /\ op = "idle" /\ rpc = "none" /\ ~panicked
    /\ placeholder' = RefCell_new(None)
    /\ rpc' = "building"
    /\ op' = "recursive"
    /\ UNCHANGED <<codec, value, repr, result, log, writes, panicked, built, stack>>

\* What the caller of the placeholder gets: a result, or the panic.
Invoke(out, call, arg) ==
    /\ IF IsPanic(out.res)
       THEN panicked' = TRUE /\ UNCHANGED result
       ELSE result' = out.res /\ UNCHANGED panicked
    /\ log' = <<CodecCall(call, dummy, arg)>>
    /\ UNCHANGED <<codec, op, value, repr, placeholder, writes, rpc, built, stack>>

\* The building function calls the placeholder it was handed before it
\* returns.
BuilderInvokesPlaceholder ==
    /\ rpc = "building" /\ ~panicked
    /\ \/ \E v \in Chains : Invoke(encode(dummy, v), "encode", v)
       \/ \E r \in ChainReprs : Invoke(decode(dummy, r), "decode", r)

\* let codec = f(dummy).arc();
BuilderReturns ==
    /\ rpc = "building" /\ ~panicked
    /\ built' = Some(ArcCodec(LinkedList_codec(dummy)))
    /\ rpc' = "built"
    /\ UNCHANGED <<codec, op, value, repr, result, log, placeholder, writes, panicked, stack>>

\* placeholder.borrow_mut()
BorrowMut ==
    /\ rpc = "built" /\ ~panicked
    /\ LET cell == RefCell_borrow_mut(placeholder)
       IN  IF cell.ok
           THEN placeholder' = cell.val /\ rpc' = "borrowed" /\ UNCHANGED panicked
           ELSE panicked' = TRUE /\ UNCHANGED <<placeholder, rpc>>
    /\ UNCHANGED <<codec, op, value, repr, result, log, writes, built, stack>>

\* *placeholder.borrow_mut() = Some(codec.clone());
Backpatch ==
    /\ rpc = "borrowed" /\ ~panicked
    /\ placeholder' = [placeholder EXCEPT !.value = Some_clone(built.val)]
    /\ writes' = writes + 1
    /\ rpc' = "written"
    /\ UNCHANGED <<codec, op, value, repr, result, log, panicked, built, stack>>

\* The RefMut is dropped at the end of the statement.
DropRefMut ==
    /\ rpc = "written" /\ ~panicked
    /\ placeholder' = RefCell_release(placeholder)
    /\ rpc' = "installed"
    /\ UNCHANGED <<codec, op, value, repr, result, log, writes, panicked, built, stack>>

\* recursive returns codec to its caller.
RecursiveReturn ==
    /\ rpc = "installed" /\ ~panicked
    /\ rpc' = "returned"
    /\ op' = "idle"
    /\ UNCHANGED <<codec, value, repr, result, log, placeholder, writes, panicked, built, stack>>

(***************************************************************************)
(* Calls through the codec recursive returned.  The stack holds the call   *)
(* of the caller and, above it, the calls of the placeholder that have not *)
(* returned; each holds a shared borrow of the cell while it runs.         *)
(***************************************************************************)
Call(c, call, arg) == IF call = "encode" THEN encode(c, arg) ELSE decode(c, arg)

RECURSIVE PlaceholderCalls(_, _, _)
\* The arguments, in order, with which running c on arg calls the encode or
\* decode closure of the placeholder, not counting the calls made below one.
PlaceholderCalls(c, call, arg) ==
    IF c.type = "FnCodec" THEN <<arg>>
    ELSE LET calls == Call(c, call, arg).log
         IN  Concat([i \in 1..Len(calls) |->
                        IF "codec" \in DOMAIN calls[i]
                        THEN PlaceholderCalls(calls[i].codec, call, calls[i].arg)
                        ELSE << >>])

Frame(call, arg, then) == [call |-> call, arg |-> arg, done |-> 0, then |-> then]

Top == stack[Len(stack)]

\* The codec the top call runs: the caller's, or the one the closure found
\* in the cell.
Callee == IF Len(stack) = 1 THEN codec ELSE placeholder.value.val

Pending == PlaceholderCalls(Callee, Top.call, Top.arg)

EnterCall(c, call, arg, then) ==
    /\ codec' = c
    /\ result' = Ok(<< >>)
    /\ log' = << >>
    /\ stack' = <<Frame(call, arg, then)>>
    /\ UNCHANGED <<placeholder, writes, rpc, panicked, built>>

\* codec.encode(&ops, &chain) is entered
RecursiveEncode ==
    /\ op = "idle" /\ rpc = "returned" /\ ~panicked
    /\ \E v \in Chains :
        /\ EnterCall(built.val, "encode", v, "encode")
        /\ op' = "encoding" /\ value' = v /\ repr' = NoRepr

\* codec.decode(&ops, &mut r) is entered, on what the codec has just
\* encoded or on a representation of the caller's own
RecursiveDecode ==
    \/ /\ op = "encode" /\ rpc = "returned" /\ ~panicked
       /\ codec = built.val /\ result.ok
       /\ EnterCall(built.val, "decode", repr, "roundtrip")
       /\ op' = "decoding" /\ UNCHANGED <<value, repr>>
    \/ /\ op = "idle" /\ rpc = "returned" /\ ~panicked
       /\ \E r \in ChainReprs :
            /\ EnterCall(built.val, "decode", r, "decode")
            /\ op' = "decoding" /\ value' = << >> /\ repr' = r

\* The running call reaches the placeholder: the closure borrows the cell
\* and expects a codec in it.
PlaceholderEnter ==
    /\ op \in {"encoding", "decoding"} /\ ~panicked
    /\ Top.done < Len(Pending)
    /\ LET cell == RefCell_borrow(placeholder)
           installed == expect(placeholder.value, "tried to decode before initialization")
       IN  IF cell.ok /\ installed.ok
           THEN /\ placeholder' = cell.val
                /\ stack' = Append(stack, Frame(Top.call, Pending[Top.done + 1], Top.then))
                /\ UNCHANGED panicked
           ELSE /\ panicked' = TRUE
                /\ UNCHANGED <<placeholder, stack>>
    /\ result' = Ok(<< >>)
    /\ log' = << >>
    /\ UNCHANGED <<codec, op, value, repr, writes, rpc, built>>

\* A call of the placeholder returns what the codec in the cell returned, and
\* the closure's borrow ends.
PlaceholderReturn ==
    /\ op \in {"encoding", "decoding"} /\ ~panicked
    /\ Len(stack) > 1
    /\ Top.done = Len(Pending)
    /\ result' = Call(dummy.codec, Top.call, Top.arg).res
    /\ log' = <<CodecCall(Top.call, dummy.codec, Top.arg)>>
    /\ placeholder' = RefCell_release(placeholder)
    /\ stack' = [SubSeq(stack, 1, Len(stack) - 1) EXCEPT ![Len(stack) - 1].done = @ + 1]
    /\ UNCHANGED <<codec, op, value, repr, writes, rpc, panicked, built>>

\* The call of the caller returns.
RecursiveCallReturn ==
    /\ op \in {"encoding", "decoding"} /\ ~panicked
    /\ Len(stack) = 1
    /\ Top.done = Len(Pending)
    /\ LET out == Call(codec, Top.call, Top.arg)
       IN  /\ result' = out.res
           /\ log' = out.log
           /\ repr' = IF Top.call = "decode" THEN repr
                      ELSE IF out.res.ok THEN out.res.val ELSE NoRepr
    /\ op' = Top.then
    /\ stack' = << >>
    /\ UNCHANGED <<codec, value, placeholder, writes, rpc, panicked, built>>

\* The caller drops the result and is ready for its next call.
Return ==
    /\ op \in Completed \cup {"repair", "eq"}
    /\ codec' = NoCodec
    /\ op' = "idle"
    /\ value' = << >>
    /\ repr' = NoRepr
    /\ result' = Ok(<< >>)
    /\ log' = << >>
    /\ UNCHANGED rvars

Next ==
    \/ F64CodecEncode \/ F64CodecDecode
    \/ StringCodecEncode \/ StringCodecDecode
    \/ BoolCodecEncode \/ BoolCodecDecode
    \/ NumberCodecEncode \/ NumberCodecDecode
    \/ ListCodecEncode \/ ListCodecDecode
    \/ XMapCodecEncode \/ XMapCodecDecode
    \/ PairCodecEncode \/ PairCodecDecode
    \/ BoundedCodecEncode \/ BoundedCodecDecode
    \/ DynamicCodecEncode \/ DynamicCodecDecode
    \/ ArcCodecEncode \/ ArcCodecDecode
    \/ CodecOpsCreateMapSpecial \/ CodecOpsTCreateMapSpecial
    \/ GameConfigEncode \/ GameConfigInsert \/ GameConfigDecode
    \/ MapViewUpdate \/ MapViewMutUpdate \/ DynamicObjectMap
    \/ Repair \/ DynamicObjectEq
    \/ RecursiveCall \/ BuilderInvokesPlaceholder \/ BuilderReturns
    \/ BorrowMut \/ Backpatch \/ DropRefMut \/ RecursiveReturn
    \/ RecursiveEncode \/ RecursiveDecode
    \/ PlaceholderEnter \/ PlaceholderReturn \/ RecursiveCallReturn
    \/ Return

Spec == Init /\ [][Next]_vars

(***************************************************************************)
(* Properties.                                                             *)
(***************************************************************************)
\* The codec c round-trips the value v.
RoundTrips(c, v) ==
    LET e == encode(c, v).res
    IN  e.ok /\ decode(c, e.val).res = Ok(v)

Min(S) == CHOOSE x \in S : \A y \in S : x <= y

IsDecode == op \in {"decode", "roundtrip"}

\* C1: the f64, String and bool codecs round-trip every value: encode
\* succeeds, and decoding what it returned succeeds and returns the value.
C1_PrimitiveRoundTrip ==
    codec \in {F64Codec, StringCodec, BoolCodec} =>
        /\ op = "encode" => result.ok
        /\ op = "roundtrip" => result = Ok(value)

C1_Witness ==
    /\ op = "roundtrip"
    /\ codec = F64Codec
    /\ value = Fin(20)
    /\ result = Ok(Fin(20))

\* C2: over a half-open range lo..hi, BoundedCodec::encode returns Ok
\* exactly when lo <= v < hi, and when it returns Err it has not called the
\* inner codec's encode.
C2_BoundedEncode ==
    (op = "encode" /\ codec.type = "BoundedCodec") =>
        /\ result.ok <=> (codec.range.start.at <= value /\ value < codec.range.end.at)
        /\ ~result.ok => log = << >>
        /\ result.ok => log = <<CodecCall("encode", codec.codec, value)>>

C2_Witness ==
    /\ op = "encode"
    /\ codec = BoundedCodec(NumberCodec, Range(1, 30))
    /\ value = 30
    /\ ~result.ok
    /\ log = << >>

\* C3: a bounded codec hands no out-of-range value to its caller: decode
\* returns Ok(x) only if the inner decode returned Ok(x) with x in the range,
\* returns Err if the inner decode returned a value outside the range, and
\* returns the inner decode's error unchanged; encode returns Ok only for a
\* value in the range.
C3_BoundedInRange ==
    codec.type = "BoundedCodec" =>
        /\ IsDecode =>
            LET inner == decode(codec.codec, repr).res
            IN  /\ result.ok =>
                    /\ inner = result
                    /\ codec.range.start.at <= result.val
                    /\ result.val < codec.range.end.at
                /\ (inner.ok /\ ~(codec.range.start.at <= inner.val
                                    /\ inner.val < codec.range.end.at))
                        => (~result.ok /\ result.err.kind = "ValidationFailed")
                /\ ~inner.ok => result = inner
        /\ (op = "encode" /\ result.ok) =>
            (codec.range.start.at <= value /\ value < codec.range.end.at)

C3_Witness ==
    /\ op = "decode"
    /\ codec = BoundedCodec(NumberCodec, Range(1, 30))
    /\ repr = Num(150)
    /\ decode(NumberCodec, repr).res = Ok(75)
    /\ ~result.ok

\* C4: for a list whose elements the inner codec round-trips, the list
\* codec's encode returns a list node of the same length whose i-th element
\* is the inner encoding of the i-th element, and decoding that node returns
\* the list, in order.
C4_ListRoundTrip ==
    (codec.type = "ListCodec" /\ op \in {"encode", "roundtrip"}
        /\ \A i \in 1..Len(value) : RoundTrips(codec.inner, value[i])) =>
        /\ op = "encode" =>
            /\ result.ok
            /\ repr.shape = "list"
            /\ Len(repr.items) = Len(value)
            /\ \A i \in 1..Len(value) :
                    repr.items[i] = encode(codec.inner, value[i]).res.val
        /\ op = "roundtrip" => result = Ok(value)

C4_Witness ==
    /\ op = "roundtrip"
    /\ codec = ListCodec(NumberCodec)
    /\ value = <<30, 15, 75>>
    /\ repr = create_list(<<Num(60), Num(30), Num(150)>>)
    /\ result = Ok(<<30, 15, 75>>)

\* C5: the list codec fails fast: when the inner codec fails on an element,
\* encode (decode) returns the error of the first such element, has called
\* the inner codec on the elements up to that one and on none after it, and
\* has built no list; it returns Ok only if every element succeeds.
C5_ListFailFast ==
    codec.type = "ListCodec" =>
        /\ op = "encode" =>
            LET bad == {i \in 1..Len(value) : ~encode(codec.inner, value[i]).res.ok}
                n == IF bad = {} THEN Len(value) ELSE Min(bad)
            IN  /\ result.ok <=> bad = {}
                /\ bad # {} => result = encode(codec.inner, value[n]).res
                /\ Len(log) = IF bad = {} THEN n + 1 ELSE n
                /\ \A i \in 1..n : log[i] = CodecCall("encode", codec.inner, value[i])
                /\ bad = {} => log[n + 1].call = "create_list"
        /\ (IsDecode /\ repr.shape = "list") =>
            LET bad == {i \in 1..Len(repr.items) :
                            ~decode(codec.inner, repr.items[i]).res.ok}
                n == IF bad = {} THEN Len(repr.items) ELSE Min(bad)
            IN  /\ result.ok <=> bad = {}
                /\ bad # {} => result = decode(codec.inner, repr.items[n]).res
                /\ bad = {} => Len(result.val) = Len(repr.items)
                /\ Len(log) = n + 1
                /\ log[1] = OpsCall("get_list", repr)
                /\ \A i \in 1..n :
                        log[i + 1] = CodecCall("decode", codec.inner, repr.items[i])

C5_Witness ==
    /\ op = "decode"
    /\ codec = ListCodec(BoundedCodec(NumberCodec, Range(1, 30)))
    /\ repr = create_list(<<Num(30), Num(150), create_string("Hello")>>)
    /\ result = Err(new_custom(BoundsMessage(Range(1, 30))))
    /\ Len(log) = 3

\* C6: when both sub-encodes succeed, the pair codec's encode returns a map
\* whose keys are exactly "left" and "right", bound to the left and the right
\* codec's encodings; decoding that map returns the pair when the sub-codecs
\* round-trip its sides.
C6_PairShape ==
    (codec.type = "PairCodec" /\ op \in {"encode", "roundtrip"}) =>
        LET l == encode(codec.left, value[1]).res
            r == encode(codec.right, value[2]).res
        IN  /\ (op = "encode" /\ l.ok /\ r.ok) =>
                /\ result.ok
                /\ repr.shape = "map"
                /\ DOMAIN repr.entries = {"left", "right"}
                /\ repr.entries["left"] = l.val
                /\ repr.entries["right"] = r.val
            /\ (op = "roundtrip" /\ RoundTrips(codec.left, value[1])
                    /\ RoundTrips(codec.right, value[2])) => result = Ok(value)

C6_Witness ==
    /\ op = "roundtrip"
    /\ codec = PairCodec(NumberCodec, StringCodec)
    /\ value = <<15, "Hello">>
    /\ DOMAIN repr.entries = {"left", "right"}
    /\ result = Ok(<<15, "Hello">>)

\* C7: the pair codec's decode returns the first failure among: the node is
\* no map, key "left" is missing, the left decode fails, key "right" is
\* missing, the right decode fails; once the left side has failed it neither
\* looks "right" up nor calls the right codec; it returns Ok only when all
\* succeed, extra keys or not.
C7_PairDecodeFailFast ==
    (codec.type = "PairCodec" /\ IsDecode) =>
        IF repr.shape # "map"
        THEN /\ ~result.ok
             /\ result = get_map(repr)
             /\ Len(log) = 1
        ELSE IF "left" \notin DOMAIN repr.entries
        THEN /\ result = Err(KeyNotFound("left"))
             /\ \A i \in 1..Len(log) : log[i].call # "decode"
        ELSE LET p1 == decode(codec.left, repr.entries["left"]).res
             IN  IF ~p1.ok
                 THEN /\ result = p1
                      /\ \A i \in 1..Len(log) :
                            /\ log[i].call = "get" => log[i].arg = "left"
                            /\ log[i].call = "decode" => log[i].codec = codec.left
                            /\ log[i].call = "decode" => i = Len(log)
                 ELSE IF "right" \notin DOMAIN repr.entries
                 THEN /\ result = Err(KeyNotFound("right"))
                      /\ Len(log) = 4
                 ELSE LET p2 == decode(codec.right, repr.entries["right"]).res
                      IN  IF ~p2.ok THEN result = p2
                          ELSE result = Ok(<<p1.val, p2.val>>)

C7_Witness ==
    /\ op = "decode"
    /\ codec = PairCodec(NumberCodec, StringCodec)
    /\ repr.shape = "map"
    /\ DOMAIN repr.entries = {"left", "extra"}
    /\ repr.entries["left"] = create_string("Hello")
    /\ result = Err(ShapeMismatch("number", "string"))

\* The entries of pairs that are present and failed, by index.
Failing(pairs) == {i \in 1..Len(pairs) : pairs[i].some /\ ~pairs[i].val.ok}

\* The (key, value) pairs of the present entries, in their order.
Present(pairs) ==
    LET some == SelectSeq(pairs, LAMBDA e : e.some)
    IN  [i \in 1..Len(some) |-> some[i].val.val]

\* C8: when a present entry is a failure, create_map_special returns the
\* first such failure, does not call create_map and returns no map.
C8_CreateMapSpecialShortCircuits ==
    (op = "create_map_special" /\ Failing(value) # {}) =>
        /\ result = Err(value[Min(Failing(value))].val.err)
        /\ log = << >>
        /\ repr = NoRepr

\* C8, for the definition of datafix/src/serialization/ops/mod.rs alone.
C8_DatafixShortCircuits ==
    (op = "create_map_special" /\ codec.type = "CodecOps" /\ Failing(value) # {}) =>
        /\ result = Err(value[Min(Failing(value))].val.err)
        /\ log = << >>
        /\ repr = NoRepr

\* C9: when every present entry is Ok, create_map_special returns
\* Ok(create_map(ps)), ps being the pairs of the present entries in their
\* order; an absent entry contributes no key.
C9_OptionalOmission ==
    (op = "create_map_special" /\ Failing(value) = {}) =>
        /\ result = Ok(create_map(Present(value)))
        /\ log = <<OpsCall("create_map", Present(value))>>
        /\ DOMAIN repr.entries =
                {value[i].val.val[1] : i \in {j \in 1..Len(value) : value[j].some}}

C9_Witness ==
    /\ op = "create_map_special"
    /\ codec.type = "CodecOps"
    /\ value = <<Some(Ok(<<"a", Num(30)>>)), None, Some(Ok(<<"b", create_string("Hello")>>))>>
    /\ result.ok
    /\ DOMAIN repr.entries = {"a", "b"}

\* C10: for an xmap codec, encode(v) is the inner encoding of from(v), and
\* decode applies `to` to the inner decode's value, so that over an inner
\* codec that round-trips, decode(encode(v)) is to(from(v)); with x * 5 and
\* x / 5 the value 15 comes back as 15.  An inner error is returned
\* unchanged.
C10_XMapComposition ==
    codec.type = "XMapCodec" =>
        /\ op = "encode" =>
            result = encode(codec.inner, TruncDiv(value, 5)).res
        /\ (op = "roundtrip" /\ RoundTrips(codec.inner, TruncDiv(value, 5))) =>
            /\ result = Ok(TruncDiv(value, 5) * 5)
            /\ value = 15 => result = Ok(15)
            /\ TruncDiv(value, 5) * 5 = value => result = Ok(value)
        /\ IsDecode =>
            LET inner == decode(codec.inner, repr).res
            IN  IF inner.ok THEN result = Ok(inner.val * 5) ELSE result = inner

C10_Witness ==
    /\ op = "roundtrip"
    /\ codec = XMapCodec(NumberCodec, "mul5", "div5")
    /\ value = 15
    /\ repr = Num(6)
    /\ result = Ok(15)

\* C11: a codec behind dynamic() or arc() behaves as the codec itself:
\* encode and decode return what the wrapped codec returns, Ok or Err, and a
\* value encoded through one wrapper decodes to itself through either.
C11_WrappersPreserve ==
    codec.type \in {"DynamicCodec", "ArcCodec"} =>
        /\ op = "encode" => result = encode(codec.codec, value).res
        /\ op \in {"decode", "roundtrip", "crosstrip"} =>
            result = decode(codec.codec, repr).res
        /\ (op \in {"roundtrip", "crosstrip"} /\ RoundTrips(codec.codec, value)) =>
            result = Ok(value)

C11_Witness ==
    /\ op = "crosstrip"
    /\ codec = DynamicCodec(F64Codec)
    /\ value = Fin(20)
    /\ repr = create_number(Fin(20))
    /\ result = Ok(Fin(20))

\* C12: a call of the placeholder's encode or decode made while the cell is
\* still uninitialized (by the building function) panics and hands back no
\* DataResult; no other panic happens, every call that returns returns a
\* DataResult.
C12_UseBeforeInstallPanics ==
    /\ (rpc = "building" /\ log # << >>) =>
            /\ panicked
            /\ result.ok /\ result.val = << >>
    /\ panicked => rpc = "building" /\ ~placeholder.value.some /\ log # << >>
    /\ op \in Completed => "ok" \in DOMAIN result /\ ~IsPanic(result)

C12_Witness ==
    /\ panicked
    /\ rpc = "building"
    /\ ~placeholder.value.some
    /\ log = <<CodecCall("decode", dummy, Num(2))>>

\* C13: the cell is written exactly once, after the building function has
\* returned and before recursive returns, with the codec recursive returns;
\* no call through the returned codec finds it uninitialized; the mutable
\* borrow of the write overlaps no call of the placeholder, and the calls of
\* the placeholder, nested or not, hold shared borrows only.
C13_WriteOnceCell ==
    /\ rpc \in {"none", "building", "built", "borrowed"} =>
            writes = 0 /\ ~placeholder.value.some
    /\ rpc \in {"written", "installed", "returned"} =>
            writes = 1 /\ placeholder.value = Some(built.val)
    /\ rpc = "returned" => ~panicked
    /\ stack # << >> => rpc = "returned" /\ placeholder.value.some
    /\ placeholder.borrow < 0 => stack = << >> /\ rpc \in {"borrowed", "written"}
    /\ stack # << >> => placeholder.borrow = Len(stack) - 1

C13_Witness ==
    /\ rpc = "returned"
    /\ writes = 1
    /\ Len(stack) = 3
    /\ placeholder.borrow = 2
    /\ placeholder.value = Some(built.val)

RECURSIVE ChainRepr(_)
\* The representation of a chain: a map with the node's value under "value"
\* and, unless the node is the last, the rest of the chain under "next".
ChainRepr(v) ==
    create_map(<< <<"value", create_number(into_f64(v.value))>> >>
               \o (IF v.next.some
                   THEN << <<"next", ChainRepr(v.next.val.box)>> >>
                   ELSE << >>))

\* C14: through the recursive codec a chain of LinkedList nodes encodes to
\* nested maps and decodes back to an equal chain; every call of the
\* placeholder returns what the installed codec returns for the same input;
\* the recursion goes one level per node and stops at the node without next.
C14_RecursiveRoundTrip ==
    /\ (rpc = "returned" /\ op = "encode" /\ codec = built.val) =>
            result = Ok(ChainRepr(value))
    /\ (rpc = "returned" /\ op = "roundtrip" /\ codec = built.val) =>
            result = Ok(value)
    /\ (op \in {"encoding", "decoding"} /\ log # << >>) =>
            result = Call(placeholder.value.val, log[1].call, log[1].arg).res
    /\ op = "encoding" =>
            /\ Len(stack) <= ChainLen(value)
            /\ Pending = IF Top.arg.next.some THEN <<Top.arg.next.val.box>> ELSE << >>
    /\ (op = "decoding" /\ Top.then = "roundtrip") =>
            /\ Len(stack) <= ChainLen(value)
            /\ Pending = IF "next" \in DOMAIN Top.arg.entries
                         THEN <<Top.arg.entries["next"]>> ELSE << >>

C14_Witness ==
    /\ rpc = "returned"
    /\ op = "roundtrip"
    /\ codec = built.val
    /\ ChainLen(value) = 3
    /\ repr = ChainRepr(value)
    /\ result = Ok(value)

\* C15: decoding a record ignores the keys no field declares: a GameConfig
\* whose encoded map got an extra key decodes to the same GameConfig, the
\* decode asks the map for the declared keys only, and the constructor gets
\* each field's decoded value at the field's declared position.
C15_UnknownKeysTolerated ==
    (codec = GameConfig_codec /\ op \in {"decode", "roundtrip"}) =>
        /\ \A i \in 1..Len(log) : log[i].call = "get" => log[i].arg \in GameConfigKeys
        /\ (op = "roundtrip"
            /\ [k \in GameConfigKeys |-> repr.entries[k]] = encode(codec, value).res.val.entries)
                => result = Ok(value)
        /\ result.ok =>
                \A k \in GameConfigKeys :
                    result.val[k] = decode(NumberCodec, repr.entries[k]).res.val

C15_Witness ==
    /\ codec = GameConfig_codec
    /\ op = "roundtrip"
    /\ value = GameConfig_new(100, 50, 12)
    /\ DOMAIN repr.entries = GameConfigKeys \cup {"wrender_distance"}
    /\ result = Ok(value)

\* C16: update(key, f) on a map view, and DynamicObject::map(key, f), put
\* f of the stored value, applied once, under a key that is present and
\* leave every other key as it was; with the key absent they change
\* nothing, insert nothing and call f not at all.
C16_UpdateFrame ==
    /\ op = "update" =>
        LET before == value.obj.entries
            after == repr.entries
            applied == {i \in 1..Len(log) : log[i].call = "f"}
        IN  /\ DOMAIN after = DOMAIN before
            /\ \A k \in DOMAIN before \ {value.key} : after[k] = before[k]
            /\ IF value.key \in DOMAIN before
               THEN /\ after[value.key] = call_once(value.f, before[value.key])
                    /\ Cardinality(applied) = 1
               ELSE applied = {}
    /\ op = "map" =>
        LET before == value.obj.inner.table
            after == repr.inner.table
        IN  /\ DOMAIN after = DOMAIN before
            /\ \A k \in DOMAIN before \ {value.key} : after[k] = before[k]
            /\ value.key \in DOMAIN before =>
                    after[value.key] = call_once(value.f, before[value.key])

C16_Witness ==
    /\ op = "update"
    /\ codec.type = "MapViewMut"
    /\ value.key = "left"
    /\ value.f = "wrap_in_list"
    /\ DOMAIN value.obj.entries = {"left", "right"}
    /\ repr.entries["left"] = create_list(<<value.obj.entries["left"]>>)

RECURSIVE Trace(_, _, _)
\* The names of all the calls made while c runs on arg, those of its
\* sub-codecs included.
Trace(c, call, arg) ==
    LET calls == Call(c, call, arg).log
    IN  Concat([i \in 1..Len(calls) |->
                    <<calls[i].call>> \o
                    (IF "codec" \in DOMAIN calls[i]
                     THEN Trace(calls[i].codec, calls[i].call, calls[i].arg)
                     ELSE << >>)])

\* C17: repair(value, rule) calls rule.fix_data once, with a clone of the
\* backend and the value, and returns what the rule returned, a
\* representation and not a DataResult; no codec's encode or decode calls a
\* rule.
C17_RepairDelegates ==
    /\ op = "repair" =>
        /\ log = <<RuleCall(value.rule, JsonOps, value.arg)>>
        /\ result = fix_data(value.rule, JsonOps, value.arg)
        /\ "ok" \notin DOMAIN result
    /\ op \in {"encode", "decode", "roundtrip", "crosstrip"} =>
        LET trace == Trace(codec, IF op = "encode" THEN "encode" ELSE "decode",
                           IF op = "encode" THEN value ELSE repr)
        IN  \A i \in 1..Len(trace) : trace[i] # "fix_data"

C17_Witness ==
    /\ op = "repair"
    /\ value = [rule |-> "nest_under_data", arg |-> Num(30)]
    /\ result = create_map(<< <<"data", Num(30)>> >>)
    /\ Len(log) = 1

\* C19: two DynamicObjects are equal exactly when they hold the same keys
\* with equal values, whatever the order in which each hash map yields its
\* keys; equality is reflexive and symmetric.
C19_ContentEquality ==
    op = "eq" =>
        /\ result <=> (value[1].inner.table = value[2].inner.table)
        /\ result <=> DynamicObject_eq(value[2], value[1])
        /\ value[1] = value[2] => result

\* What does hold of eq: equal objects hold the same content, an object
\* equals itself, and eq is symmetric.
C19_EqImpliesContent ==
    op = "eq" =>
        /\ result => (value[1].inner.table = value[2].inner.table)
        /\ result <=> DynamicObject_eq(value[2], value[1])
        /\ value[1] = value[2] => result

====
